---------------------------- MODULE Spec2Model ----------------------------
(***************************************************************************)
(* hostinfo (src/main.go): collect targets from a file, an argument or     *)
(* standard input, resolve each one, enrich the resolved address from two  *)
(* HTTP services through a per-run cache, print one JSON record per        *)
(* successful target and one error line per failed one.                    *)
(*                                                                         *)
(* A Go string is a sequence of one-character strings, so that trimming,   *)
(* line splitting and net.ParseIP are computed.  The network (DNS, HTTP)   *)
(* and the file system are the environment: each call draws its outcome    *)
(* anew, also for an address that was asked for before.                    *)
(***************************************************************************)
EXTENDS Naturals, Sequences, FiniteSets, TLC

\* ------------------------------------------------------------- bounds
\* Longest file or standard-input content, in characters.
MaxInput == 5

\* ------------------------------------------------------------ strings
\* The characters of the inputs: an address character, a name character,
\* a blank and the line feed.
Chars == {"1", "h", " ", "\n"}

RECURSIVE StringsUpTo(_)
StringsUpTo(n) ==
    IF n = 0 THEN {<<>>}
    ELSE LET shorter == StringsUpTo(n - 1)
         IN  shorter \cup {Append(s, c) : s \in {t \in shorter : Len(t) = n - 1}, c \in Chars}

Contents == StringsUpTo(MaxInput)

\* unicode.IsSpace on the characters of Chars.
IsSpace(c) == c \in {" ", "\n"}

RECURSIVE TrimLeft(_)
TrimLeft(s) == IF s # <<>> /\ IsSpace(Head(s)) THEN TrimLeft(Tail(s)) ELSE s

RECURSIVE TrimRight(_)
TrimRight(s) ==
    IF s # <<>> /\ IsSpace(s[Len(s)]) THEN TrimRight(SubSeq(s, 1, Len(s) - 1)) ELSE s

\* strings.TrimSpace.
TrimSpace(s) == TrimRight(TrimLeft(s))

\* net.ParseIP(target) # nil: the address literals of this alphabet are the
\* non-empty strings of address characters; a blank or a name character
\* anywhere makes the string no literal.
ParseIP(target) == target # <<>> /\ \A k \in 1..Len(target) : target[k] = "1"

\* ------------------------------------------------------ input readers
\* bufio.Scanner with the default split function over the whole content:
\* a token per line feed, the line feed dropped, and a last unterminated
\* token when it is not empty.  scanner.Text() is appended as it is.
RECURSIVE ScanFile(_, _)
ScanFile(data, token) ==
    IF data = <<>> THEN (IF token = <<>> THEN <<>> ELSE <<token>>)
    ELSE IF Head(data) = "\n" THEN <<token>> \o ScanFile(Tail(data), <<>>)
    ELSE ScanFile(Tail(data), Append(token, Head(data)))

\* The loop over reader.ReadString('\n'): a line that ends at the line feed is
\* trimmed and appended; at io.EOF the loop breaks before the append, with
\* whatever ReadString returned beside the error.
RECURSIVE ReadStdin(_, _)
ReadStdin(data, line) ==
    IF data = <<>> THEN <<>>
    ELSE IF Head(data) = "\n"
         THEN <<TrimSpace(Append(line, "\n"))>> \o ReadStdin(Tail(data), <<>>)
    ELSE ReadStdin(Tail(data), Append(line, Head(data)))

\* -------------------------------------------------------------- types
EmptyShodan == [Hostnames |-> <<>>, Ports |-> <<>>, CPEs |-> <<>>,
                Tags |-> <<>>, Vulns |-> <<>>]
ShodanBody == [Hostnames |-> <<"dns.example">>, Ports |-> <<53, 443>>,
               CPEs |-> <<"cpe:/a:x">>, Tags |-> <<"cdn">>, Vulns |-> <<"CVE-1">>]

EmptyIPInfo == [Hostname |-> "", City |-> "", Region |-> "", Country |-> "",
                Loc |-> "", Org |-> "", Postal |-> "", Timezone |-> ""]
IPInfoBodyA == [Hostname |-> "dns.example", City |-> "Oslo", Region |-> "Oslo",
                Country |-> "NO", Loc |-> "59,10", Org |-> "AS1", Postal |-> "0150",
                Timezone |-> "Europe/Oslo"]
IPInfoBodyB == [Hostname |-> "", City |-> "Lima", Region |-> "Lima",
                Country |-> "PE", Loc |-> "-12,-77", Org |-> "AS2", Postal |-> "15001",
                Timezone |-> "America/Lima"]

\* var combined CombinedResponse
ZeroCombined == [Target |-> <<>>, IP |-> <<>>,
                 IPInfoResponse |-> EmptyIPInfo, ShodanResponse |-> EmptyShodan]

\* What an HTTP GET and the decoding of its body can come to.
ShodanReplies == {[kind |-> "neterr", body |-> EmptyShodan],
                  [kind |-> "badjson", body |-> ShodanBody],
                  [kind |-> "json", body |-> ShodanBody]}
IPInfoReplies == {[kind |-> "neterr", body |-> EmptyIPInfo],
                  [kind |-> "badjson", body |-> IPInfoBodyA],
                  [kind |-> "json", body |-> IPInfoBodyA],
                  [kind |-> "json", body |-> IPInfoBodyB]}

\* What resolver.LookupIPAddr can come to: an error, or a list of addresses
\* (in their String() form).  The empty host name is refused.
Lookups(hostname) ==
    {[err |-> TRUE, ips |-> <<>>]} \cup
    (IF hostname = <<>> THEN {}
     ELSE {[err |-> FALSE, ips |-> l] : l \in {<<>>, <<<<"1">>>>, <<<<"1", "1">>, <<"1">>>>}})


\* ------------------------------------------------- enrichment and resolver
\* Mutant of fetchShodanData: the partly decoded value is returned with the
\* error instead of ShodanResponse{}.
fetchShodanDataKeepsBody(reply) == [data |-> reply.body, err |-> reply.kind # "json"]

\* fetchShodanData on one reply: ShodanResponse{} and the error, or the
\* decoded body.
fetchShodanData(reply) ==
    IF reply.kind = "json" THEN [data |-> reply.body, err |-> FALSE]
    ELSE [data |-> EmptyShodan, err |-> TRUE]

\* fetchIPInfoData on one reply.
fetchIPInfoData(reply) ==
    IF reply.kind = "json" THEN [data |-> reply.body, err |-> FALSE]
    ELSE [data |-> EmptyIPInfo, err |-> TRUE]

\* resolveHostname on one lookup: the error, "no IP addresses found", or
\* ips[0].String().
resolveHostname(lookup) ==
    IF lookup.err THEN [ip |-> <<>>, err |-> TRUE]
    ELSE IF Len(lookup.ips) = 0 THEN [ip |-> <<>>, err |-> TRUE]
    ELSE [ip |-> lookup.ips[1], err |-> FALSE]

\* Mutant of NeedsLookup: every target is looked up, literal or not.
AlwaysLookup(target) == TRUE

\* if net.ParseIP(target) == nil
NeedsLookup(target) == ~ParseIP(target)

\* One entry of the log of calls that left the process.
Call(fn, arg, ok, at, ip, shodan, ipinfo) ==
    [fn |-> fn, arg |-> arg, ok |-> ok, at |-> at,
     ip |-> ip, shodan |-> shodan, ipinfo |-> ipinfo]

\* The head of processTarget: ip := target, replaced by the resolver's answer
\* when the target is no address literal.  Every way it can come out at loop
\* position at, with the lookup it made.
Resolutions(target, at) ==
    IF ~NeedsLookup(target)
    THEN {[ip |-> target, err |-> FALSE, looked |-> <<>>]}
    ELSE {LET r == resolveHostname(l)
          IN  [ip |-> r.ip, err |-> r.err,
               looked |-> <<Call("resolveHostname", target, ~r.err, at, r.ip,
                                 EmptyShodan, EmptyIPInfo)>>] : l \in Lookups(target)}

\* Mutant of Cached: the map is never found to hold the address.
CachedNever(cache, ip) == FALSE

\* combined, cached := cachedResponses[ip]
Cached(cache, ip) == ip \in DOMAIN cache

\* Mutant of HitRecord: the stored record is returned as it was stored.
HitRecordStoredTarget(cache, ip, target) == cache[ip]

\* combined.Target = target on the copy read from the map.
HitRecord(cache, ip, target) == [cache[ip] EXCEPT !.Target = target]

\* Mutant of CacheAfterHit: the renamed copy is written back to the map.
CacheAfterHitOverwritten(cache, ip, combined) == [cache EXCEPT ![ip] = combined]

\* The map after a hit: the copy was changed, not the entry.
CacheAfterHit(cache, ip, combined) == cache

\* The four assignments to combined after both fetches.
Merge(target, ip, shodanData, ipInfoData) ==
    [Target |-> target, IP |-> ip,
     IPInfoResponse |-> ipInfoData, ShodanResponse |-> shodanData]

\* cachedResponses[ip] = combined
Store(cache, ip, combined) ==
    [k \in DOMAIN cache \cup {ip} |-> IF k = ip THEN combined ELSE cache[k]]

\* cachedResponses = map[string]CombinedResponse{}
EmptyCache == [k \in {} |-> ZeroCombined]

\* ------------------------------------------------------------- output
\* A field tagged omitempty: absent (no element) when it is the zero value.
OmitEmpty(v, zero) == IF v = zero THEN <<>> ELSE <<v>>

\* The JSON object of a CombinedResponse: the embedded structs' fields are
\* promoted, target and hostname are omitempty.
JSONObject(c) ==
    [target |-> OmitEmpty(c.Target, <<>>), ip |-> c.IP,
     hostname |-> OmitEmpty(c.IPInfoResponse.Hostname, ""),
     city |-> c.IPInfoResponse.City, region |-> c.IPInfoResponse.Region,
     country |-> c.IPInfoResponse.Country, loc |-> c.IPInfoResponse.Loc,
     org |-> c.IPInfoResponse.Org, postal |-> c.IPInfoResponse.Postal,
     timezone |-> c.IPInfoResponse.Timezone,
     hostnames |-> c.ShodanResponse.Hostnames, ports |-> c.ShodanResponse.Ports,
     cpes |-> c.ShodanResponse.CPEs, tags |-> c.ShodanResponse.Tags,
     vulns |-> c.ShodanResponse.Vulns]

\* json.Marshal: the object on one line.
Marshal(c) == [indent |-> FALSE, object |-> JSONObject(c)]

\* json.MarshalIndent(c, "", "  "): the object over several indented lines.
MarshalIndent(c) == [indent |-> TRUE, object |-> JSONObject(c)]

\* Mutant of Printed: the indented form is printed in either mode.
PrintedIndented(single, c) == MarshalIndent(c)

\* What fmt.Println writes for a record.  Neither marshalling can fail on a
\* struct of strings, ints and slices of them, so the two "Error marshalling"
\* branches are not steps of the model.
Printed(single, c) == IF single THEN MarshalIndent(c) ELSE Marshal(c)

\* A line of the error stream; target is empty on the lines of main.
ErrLine(kind, target) == [kind |-> kind, target |-> target]

\* fmt.Fprintf(os.Stderr, "Error processing target %s: %v\n", target, err)
ReportTarget(errs, target) == Append(errs, ErrLine("target", target))

\* continue, or the end of the range loop: the next position and whether
\* processTargets has returned.
Continue(i, n) == [idx |-> i + 1, pc |-> IF i < n THEN "loop" ELSE "done"]

\* Mutant of ContinueAfterError: the loop is left at the first error.
StopAfterError(i, n) == [idx |-> i + 1, pc |-> "done"]

\* continue after the error line.
ContinueAfterError(i, n) == Continue(i, n)

\* -------------------------------------------------------------- state
VARIABLES
    args,             \* flag.Args(): <<>> or <<firstArg>>
    fileExists,       \* os.Stat(firstArg) returns no error
    stdinTTY,         \* os.Stdin is a character device
    content,          \* the content of the file, or of standard input
    pc,               \* "main", "loop" (in processTargets), "done", "exit"
    targets,          \* var targets []string
    singleTarget,     \* var singleTarget bool
    idx,              \* the position of the range loop, from 1
    cachedResponses,  \* var cachedResponses map[string]CombinedResponse
    stdout,           \* what fmt.Println wrote, in order
    stderr,           \* the lines written to os.Stderr, in order
    calls,            \* history: the lookups and fetches made, in order
    hist              \* history: per finished loop position, how it ended

vars == <<args, fileExists, stdinTTY, content, pc, targets, singleTarget, idx,
          cachedResponses, stdout, stderr, calls, hist>>

env == <<args, fileExists, stdinTTY, content>>

\* The positional arguments tried: an address literal and a name, either of
\* which may also be the name of an existing file.
ArgValues == {<<"1">>, <<"h">>}

\* The process as main finds it: the command line, the file system and
\* standard input are the run's inputs; the program's variables hold their
\* zero values.
Init ==
    /\ \/ /\ args \in {<<a>> : a \in ArgValues}
          /\ fileExists = FALSE
          /\ content = <<>>
          /\ stdinTTY \in BOOLEAN
       \/ /\ args = <<<<"h">>>>
          /\ fileExists = TRUE
          /\ content \in Contents
          /\ stdinTTY = TRUE
       \/ /\ args = <<>>
          /\ fileExists = FALSE
          /\ \/ stdinTTY = TRUE /\ content = <<>>
             \/ stdinTTY = FALSE /\ content \in Contents
    /\ pc = "main"
    /\ targets = <<>>
    /\ singleTarget = FALSE
    /\ idx = 1
    /\ cachedResponses = EmptyCache
    /\ stdout = <<>>
    /\ stderr = <<>>
    /\ calls = <<>>
    /\ hist = <<>>

\* --------------------------------------------------------------- main
\* The tail of main once targets are collected: "No targets provided" and
\* return, or processTargets, whose first statement empties the cache.
Collected(ts, single) ==
    /\ targets' = ts
    /\ singleTarget' = single
    /\ IF Len(ts) = 0
       THEN /\ pc' = "exit"
            /\ stderr' = Append(stderr, ErrLine("notargets", <<>>))
            /\ UNCHANGED cachedResponses
       ELSE /\ pc' = "loop"
            /\ cachedResponses' = EmptyCache
            /\ UNCHANGED stderr
    /\ UNCHANGED <<env, idx, stdout, calls, hist>>

\* A return from main after one line on the error stream.
Abort(kind) ==
    /\ pc' = "exit"
    /\ stderr' = Append(stderr, ErrLine(kind, <<>>))
    /\ UNCHANGED <<env, targets, singleTarget, idx, cachedResponses, stdout, calls, hist>>

\* The argument names an existing file and every line of it is read.
MainFile ==
    /\ pc = "main" /\ Len(args) > 0 /\ fileExists
    /\ Collected(ScanFile(content, <<>>), FALSE)

\* os.Open fails on the file os.Stat found.
MainOpenError ==
    /\ pc = "main" /\ Len(args) > 0 /\ fileExists
    /\ Abort("openfile")

\* scanner.Err() is not nil.
MainReadFileError ==
    /\ pc = "main" /\ Len(args) > 0 /\ fileExists
    /\ Abort("readfile")

\* Mutant of MainArgument: singleTarget is left false.
MainArgumentBatch ==
    /\ pc = "main" /\ Len(args) > 0 /\ ~fileExists
    /\ Collected(<<args[1]>>, FALSE)

\* The argument is no existing file: it is the one target.
MainArgument ==
    /\ pc = "main" /\ Len(args) > 0 /\ ~fileExists
    /\ Collected(<<args[1]>>, TRUE)

\* os.Stdin.Stat fails.
MainStatError ==
    /\ pc = "main" /\ Len(args) = 0
    /\ Abort("statstdin")

\* Standard input is a terminal: flag.Usage() and return.
MainUsage ==
    /\ pc = "main" /\ Len(args) = 0 /\ stdinTTY
    /\ Abort("usage")

\* Standard input is read to io.EOF.
MainStdin ==
    /\ pc = "main" /\ Len(args) = 0 /\ ~stdinTTY
    /\ Collected(ReadStdin(content, <<>>), FALSE)

\* reader.ReadString fails with an error other than io.EOF.
MainReadStdinError ==
    /\ pc = "main" /\ Len(args) = 0 /\ ~stdinTTY
    /\ Abort("readstdin")

\* ------------------------------------------------ processTargets, per target
\* One finished loop position: the target, the address it resolved to and how
\* processTarget returned.
Ended(target, ip, via) == [target |-> target, ip |-> ip, via |-> via]

\* The loop moves on after a printed record.
Advance(next) ==
    /\ idx' = next.idx
    /\ pc' = next.pc
    /\ UNCHANGED <<env, targets, singleTarget>>

\* resolveHostname fails: processTarget returns the error, the loop reports it.
ResolveFails ==
    /\ pc = "loop"
    /\ LET target == targets[idx] IN
       \E r \in Resolutions(target, idx) :
          /\ r.err
          /\ calls' = calls \o r.looked
          /\ stderr' = ReportTarget(stderr, target)
          /\ hist' = Append(hist, Ended(target, r.ip, "resolveErr"))
          /\ Advance(ContinueAfterError(idx, Len(targets)))
          /\ UNCHANGED <<cachedResponses, stdout>>

\* The address is in the cache: the stored record is returned with this
\* target's name and printed; no fetch is made.
CacheHit ==
    /\ pc = "loop"
    /\ LET target == targets[idx] IN
       \E r \in Resolutions(target, idx) :
          /\ ~r.err
          /\ Cached(cachedResponses, r.ip)
          /\ LET combined == HitRecord(cachedResponses, r.ip, target) IN
             /\ cachedResponses' = CacheAfterHit(cachedResponses, r.ip, combined)
             /\ stdout' = Append(stdout, Printed(singleTarget, combined))
          /\ calls' = calls \o r.looked
          /\ hist' = Append(hist, Ended(target, r.ip, "hit"))
          /\ Advance(Continue(idx, Len(targets)))
          /\ UNCHANGED stderr

\* The two fetches that follow a cache miss, as entries of the call log.
Fetches(ip, at, shodan, ipinfo) ==
    <<Call("fetchShodanData", ip, ~shodan.err, at, <<>>, shodan.data, EmptyIPInfo),
      Call("fetchIPInfoData", ip, ~ipinfo.err, at, <<>>, EmptyShodan, ipinfo.data)>>

\* A cache miss whose fetchIPInfoData fails: the error is returned and
\* reported, whatever fetchShodanData returned.
GeoFails ==
    /\ pc = "loop"
    /\ LET target == targets[idx] IN
       \E r \in Resolutions(target, idx), sr \in ShodanReplies, gr \in IPInfoReplies :
          LET shodan == fetchShodanData(sr)
              ipinfo == fetchIPInfoData(gr)
          IN  /\ ~r.err
              /\ ~Cached(cachedResponses, r.ip)
              /\ ipinfo.err
              /\ calls' = calls \o r.looked \o Fetches(r.ip, idx, shodan, ipinfo)
              /\ stderr' = ReportTarget(stderr, target)
              /\ hist' = Append(hist, Ended(target, r.ip, "geoErr"))
              /\ Advance(ContinueAfterError(idx, Len(targets)))
              /\ UNCHANGED <<cachedResponses, stdout>>

\* A cache miss whose fetchIPInfoData succeeds: the merged record is stored
\* under the address and printed; the error of fetchShodanData is dropped.
Enriched ==
    /\ pc = "loop"
    /\ LET target == targets[idx] IN
       \E r \in Resolutions(target, idx), sr \in ShodanReplies, gr \in IPInfoReplies :
          LET shodan == fetchShodanData(sr)
              ipinfo == fetchIPInfoData(gr)
              combined == Merge(target, r.ip, shodan.data, ipinfo.data)
          IN  /\ ~r.err
              /\ ~Cached(cachedResponses, r.ip)
              /\ ~ipinfo.err
              /\ calls' = calls \o r.looked \o Fetches(r.ip, idx, shodan, ipinfo)
              /\ cachedResponses' = Store(cachedResponses, r.ip, combined)
              /\ stdout' = Append(stdout, Printed(singleTarget, combined))
              /\ hist' = Append(hist, Ended(target, r.ip, "ok"))
              /\ Advance(Continue(idx, Len(targets)))
              /\ UNCHANGED stderr

Next ==
    \/ MainFile
    \/ MainOpenError
    \/ MainReadFileError
    \/ MainArgument
    \/ MainStatError
    \/ MainUsage
    \/ MainStdin
    \/ MainReadStdinError
    \/ ResolveFails
    \/ CacheHit
    \/ GeoFails
    \/ Enriched

Spec == Init /\ [][Next]_vars

\* ------------------------------------------------------------- claims
\* Vocabulary shared by the properties below.
Fetch == {"fetchShodanData", "fetchIPInfoData"}
Succeeded(e) == e.via \in {"ok", "hit"}
Failed(e) == e.via \in {"resolveErr", "geoErr"}

\* The calls made at loop position m.
CallsAt(m) == {k \in 1..Len(calls) : calls[k].at = m}
FetchesAt(m) == {k \in CallsAt(m) : calls[k].fn \in Fetch}
LookupsAt(m) == {k \in CallsAt(m) : calls[k].fn = "resolveHostname"}

\* The place on standard output (on the error stream) of the line that loop
\* position m wrote, when lines are written in loop order.
OutIndex(m) == Cardinality({n \in 1..m : Succeeded(hist[n])})
ErrIndex(m) == Cardinality({n \in 1..m : Failed(hist[n])})

\* A printed object with its target field left out of the comparison.
SansTarget(object) == [object EXCEPT !.target = <<>>]

\* C1 (as claimed): within one run no address is the argument of more than
\* one fetchShodanData call nor of more than one fetchIPInfoData call,
\* whatever the lookups return.
C1_FetchedAtMostOnce ==
    \A j, k \in 1..Len(calls) :
        (calls[j].fn \in Fetch /\ calls[j].fn = calls[k].fn /\ calls[j].arg = calls[k].arg)
            => j = k

\* C1 (amended): a loop position fetches for an address only when every
\* earlier fetchIPInfoData for that address failed, and then makes exactly the
\* pair of calls; once a record for the address exists, each later target that
\* resolves to it makes no fetch and prints that record with its own target.
C1_FetchedOnceAfterSuccess ==
    /\ \A j, k \in 1..Len(calls) :
          (j < k /\ calls[j].fn = "fetchIPInfoData" /\ calls[k].fn \in Fetch
             /\ calls[j].arg = calls[k].arg /\ calls[j].at # calls[k].at)
              => ~calls[j].ok
    /\ \A m \in 1..Len(hist) :
          /\ Cardinality(FetchesAt(m)) \in {0, 2}
          /\ \A n \in 1..(m - 1) :
                (Succeeded(hist[n]) /\ hist[m].via # "resolveErr" /\ hist[n].ip = hist[m].ip)
                    => /\ hist[m].via = "hit"
                       /\ FetchesAt(m) = {}
                       /\ OutIndex(m) \in 1..Len(stdout)
                       /\ stdout[OutIndex(m)].object =
                             [stdout[OutIndex(n)].object EXCEPT
                                 !.target = OmitEmpty(hist[m].target, <<>>)]

\* C1 witness: an address whose first fetch failed, which was then fetched
\* again with success, and which a third, differently named target hit.
C1_Witness ==
    \E a, b, c \in 1..Len(hist) :
        /\ a < b /\ b < c
        /\ hist[a].ip = hist[b].ip /\ hist[b].ip = hist[c].ip
        /\ hist[a].via = "geoErr" /\ hist[b].via = "ok" /\ hist[c].via = "hit"
        /\ hist[c].target # hist[b].target

\* C2: in batch mode, when processTargets has returned, standard output holds
\* exactly one compact record per target that succeeded, in the order of the
\* targets, and nothing for a failed target.
C2_BatchOutput ==
    (pc = "done" /\ ~singleTarget) =>
        /\ Len(hist) = Len(targets)
        /\ Len(stdout) = Cardinality({m \in 1..Len(hist) : Succeeded(hist[m])})
        /\ \A m \in 1..Len(hist) :
              Succeeded(hist[m]) =>
                  /\ OutIndex(m) \in 1..Len(stdout)
                  /\ ~stdout[OutIndex(m)].indent
                  /\ stdout[OutIndex(m)].object.target = OmitEmpty(targets[m], <<>>)
                  /\ stdout[OutIndex(m)].object.ip = hist[m].ip

\* C2 witness: a finished batch of three targets whose first failed and whose
\* other two were printed.
C2_Witness ==
    /\ pc = "done" /\ ~singleTarget
    /\ Len(targets) = 3 /\ Len(stdout) = 2
    /\ Failed(hist[1])

\* The step is a cache miss: it ends with a fetchIPInfoData call, which
\* follows the fetchShodanData call for the same address.
MissStep ==
    /\ Len(calls') >= Len(calls) + 2
    /\ calls'[Len(calls')].fn = "fetchIPInfoData"
    /\ calls'[Len(calls') - 1].fn = "fetchShodanData"

\* The security fields of a printed object are all empty.
NoSecurityFields(object) ==
    /\ object.hostnames = <<>> /\ object.ports = <<>> /\ object.cpes = <<>>
    /\ object.tags = <<>> /\ object.vulns = <<>>

\* The geolocation fields of a printed object are those of an IPInfoResponse.
GeoFieldsAre(object, d) ==
    /\ object.hostname = OmitEmpty(d.Hostname, "") /\ object.city = d.City
    /\ object.region = d.Region /\ object.country = d.Country /\ object.loc = d.Loc
    /\ object.org = d.Org /\ object.postal = d.Postal /\ object.timezone = d.Timezone

\* C3: on a cache miss, a failed fetchIPInfoData writes nothing to standard
\* output and exactly one error line naming the target, whatever
\* fetchShodanData returned; a failed fetchShodanData followed by a successful
\* fetchIPInfoData prints one record for the target with the security fields
\* empty and the geolocation fields as returned.
C3_FetchFailures ==
    [][MissStep =>
         LET geo == calls'[Len(calls')]
             sec == calls'[Len(calls') - 1]
             target == targets[idx]
         IN  /\ ~geo.ok =>
                  /\ stdout' = stdout
                  /\ stderr' = Append(stderr, ErrLine("target", target))
             /\ (~sec.ok /\ geo.ok) =>
                  /\ stderr' = stderr
                  /\ Len(stdout') = Len(stdout) + 1
                  /\ SubSeq(stdout', 1, Len(stdout)) = stdout
                  /\ LET object == stdout'[Len(stdout')].object
                     IN  /\ object.target = OmitEmpty(target, <<>>)
                         /\ object.ip = geo.arg
                         /\ NoSecurityFields(object)
                         /\ GeoFieldsAre(object, geo.ipinfo)]_vars

\* C3 witness: one run in which a target failed on fetchIPInfoData while
\* fetchShodanData had succeeded, and another target was printed after its
\* fetchShodanData failed.
C3_Witness ==
    \E j, k \in 1..Len(calls) :
        /\ j > 1 /\ k > 1
        /\ calls[j].fn = "fetchIPInfoData" /\ ~calls[j].ok /\ calls[j - 1].ok
        /\ calls[k].fn = "fetchIPInfoData" /\ calls[k].ok /\ ~calls[k - 1].ok
        /\ calls[k - 1].fn = "fetchShodanData"
        /\ Len(stdout) > 0 /\ Len(stderr) > 0

\* C4: in processTargets the targets are taken once each, in input order; a
\* finished target wrote exactly one line, a record or an error line naming
\* it; a failure never ends the loop early: while a target is left a step is
\* possible, and the loop is over exactly when the last target is finished.
C4_BatchContinues ==
    pc \in {"loop", "done"} =>
        /\ Len(hist) = idx - 1
        /\ idx <= Len(targets) + 1
        /\ \A m \in 1..Len(hist) : hist[m].target = targets[m]
        /\ Len(stdout) + Len(stderr) = Len(hist)
        /\ \A m \in 1..Len(hist) :
              /\ Succeeded(hist[m]) \/ Failed(hist[m])
              /\ Failed(hist[m]) =>
                    /\ ErrIndex(m) \in 1..Len(stderr)
                    /\ stderr[ErrIndex(m)] = ErrLine("target", targets[m])
              /\ Succeeded(hist[m]) => OutIndex(m) \in 1..Len(stdout)
        /\ (pc = "done") <=> (idx = Len(targets) + 1)
        /\ (pc = "loop") => ENABLED Next

\* C4 witness: a finished batch whose first two targets failed, one at the
\* resolver and one at fetchIPInfoData, and whose third was printed.
C4_Witness ==
    /\ pc = "done" /\ Len(targets) = 3
    /\ hist[1].via = "resolveErr" /\ hist[2].via = "geoErr" /\ Succeeded(hist[3])
    /\ Len(stderr) = 2 /\ Len(stdout) = 1

\* The lines of a text: the stretches between line feeds, the stretch after
\* the last line feed being a line when it is not empty.
RECURSIVE TextLines(_)
TextLines(text) ==
    IF text = <<>> THEN <<>>
    ELSE LET feeds == {k \in 1..Len(text) : text[k] = "\n"}
         IN  IF feeds = {} THEN <<text>>
             ELSE LET first == CHOOSE k \in feeds : \A j \in feeds : k <= j
                  IN  <<SubSeq(text, 1, first - 1)>>
                          \o TextLines(SubSeq(text, first + 1, Len(text)))

TrimmedLines(text) ==
    LET lines == TextLines(text) IN [k \in 1..Len(lines) |-> TrimSpace(lines[k])]

\* main has collected its targets: it called processTargets, or returned for
\* want of targets.
HasCollected ==
    \/ pc \in {"loop", "done"}
    \/ pc = "exit" /\ stderr = <<ErrLine("notargets", <<>>)>>

\* C5 (as claimed): when the argument names an existing file, the collected
\* targets are the file's lines in order, each trimmed of surrounding
\* whitespace, and the run is in batch mode.
C5_FileLinesTrimmed ==
    (Len(args) > 0 /\ fileExists /\ HasCollected) =>
        /\ targets = TrimmedLines(content)
        /\ ~singleTarget

\* C6 (as claimed): with no argument and piped standard input, the collected
\* targets are all the lines of standard input up to end-of-stream, in order
\* and trimmed, whether or not the last line ends with a line feed, and the
\* run is in batch mode.
C6_StdinAllLines ==
    (Len(args) = 0 /\ ~stdinTTY /\ HasCollected) =>
        /\ targets = TrimmedLines(content)
        /\ ~singleTarget

\* C7 (as claimed): when the argument is no existing file, the targets are
\* that one argument, the run is in single-target mode and a finished run has
\* written exactly one indented JSON object to standard output.
C7_OneIndentedObject ==
    (Len(args) > 0 /\ ~fileExists /\ pc # "main") =>
        /\ targets = <<args[1]>>
        /\ singleTarget
        /\ pc = "done" => (Len(stdout) = 1 /\ stdout[1].indent)

\* C7 (amended): when the argument is no existing file, the targets are that
\* one argument and the run is in single-target mode; a finished run has
\* written exactly one indented JSON object for the argument and no error
\* line when processTarget succeeded, and no object and one error line naming
\* the argument when it failed.
C7_OneIndentedObjectOnSuccess ==
    (Len(args) > 0 /\ ~fileExists /\ pc # "main") =>
        /\ targets = <<args[1]>>
        /\ singleTarget
        /\ pc = "done" =>
              /\ Len(hist) = 1
              /\ \/ /\ Succeeded(hist[1])
                    /\ Len(stdout) = 1 /\ stdout[1].indent
                    /\ stdout[1].object.target = <<args[1]>>
                    /\ stderr = <<>>
                 \/ /\ Failed(hist[1])
                    /\ stdout = <<>>
                    /\ stderr = <<ErrLine("target", args[1])>>

\* C7 witness: a finished single-target run that printed its object.
C7_Witness ==
    /\ Len(args) > 0 /\ ~fileExists /\ pc = "done"
    /\ singleTarget /\ Len(stdout) = 1 /\ stdout[1].indent

\* C8: the printed records are, in order, those of the targets that
\* succeeded, each carrying its own target; two printed records of targets
\* that resolved to the same address agree in every field but the target.
C8_SharedRecord ==
    /\ Len(stdout) = Cardinality({m \in 1..Len(hist) : Succeeded(hist[m])})
    /\ \A m \in 1..Len(hist) :
          Succeeded(hist[m]) =>
              /\ OutIndex(m) \in 1..Len(stdout)
              /\ m \in 1..Len(targets)
              /\ stdout[OutIndex(m)].object.target = OmitEmpty(targets[m], <<>>)
    /\ \A m, n \in 1..Len(hist) :
          (Succeeded(hist[m]) /\ Succeeded(hist[n]) /\ hist[m].ip = hist[n].ip)
              => SansTarget(stdout[OutIndex(m)].object) = SansTarget(stdout[OutIndex(n)].object)
    /\ \A a, b \in 1..Len(stdout) :
          stdout[a].object.ip = stdout[b].object.ip
              => SansTarget(stdout[a].object) = SansTarget(stdout[b].object)

\* C8 witness: two printed records for one address under different target
\* names, after an earlier fetch for that address had failed.
C8_Witness ==
    \E a, b \in 1..Len(stdout) :
        /\ a # b
        /\ stdout[a].object.ip = stdout[b].object.ip
        /\ stdout[a].object.target # stdout[b].object.target
        /\ \E m \in 1..Len(hist) : hist[m].via = "geoErr" /\ hist[m].ip = stdout[a].object.ip

\* C9: a target that is an address literal is itself the resolved address
\* (what is fetched for, the cache key and the ip of the record) and makes no
\* lookup; a target that is no literal makes exactly one lookup, of itself,
\* and fails when the lookup fails or returns no address.
C9_LiteralsNotResolved ==
    \A m \in 1..Len(hist) :
        LET target == hist[m].target IN
        /\ ParseIP(target) =>
              /\ LookupsAt(m) = {}
              /\ hist[m].via # "resolveErr"
              /\ hist[m].ip = target
              /\ \A k \in FetchesAt(m) : calls[k].arg = target
              /\ Succeeded(hist[m]) =>
                    /\ target \in DOMAIN cachedResponses
                    /\ cachedResponses[target].IP = target
                    /\ stdout[OutIndex(m)].object.ip = target
        /\ ~ParseIP(target) =>
              /\ Cardinality(LookupsAt(m)) = 1
              /\ \A k \in LookupsAt(m) :
                    /\ calls[k].arg = target
                    /\ ~calls[k].ok => (hist[m].via = "resolveErr" /\ FetchesAt(m) = {})
                    /\ calls[k].ok => (hist[m].via # "resolveErr" /\ hist[m].ip = calls[k].ip)

\* C9 witness: one run with a printed address literal, a name that resolved
\* and a name whose lookup failed.
C9_Witness ==
    \E a, b, c \in 1..Len(hist) :
        /\ ParseIP(hist[a].target) /\ hist[a].via = "ok"
        /\ ~ParseIP(hist[b].target) /\ Succeeded(hist[b])
        /\ ~ParseIP(hist[c].target) /\ hist[c].via = "resolveErr"

\* The last call of the step is a successful fetchIPInfoData for address k.
GeoSucceededFor(k) ==
    /\ Len(calls') > Len(calls)
    /\ calls'[Len(calls')].fn = "fetchIPInfoData"
    /\ calls'[Len(calls')].ok
    /\ calls'[Len(calls')].arg = k

\* C10: the cache is empty when processTargets starts; a step of the loop
\* leaves it as it is or adds one new key, and adds one only after a
\* successful fetchIPInfoData for that key: a failed target and a cache hit
\* leave the map unchanged, no entry is removed or replaced, and the entry
\* under key k has IP k.
C10_CacheOnlyGrows ==
    [][/\ (pc = "main" /\ pc' = "loop") => cachedResponses' = EmptyCache
       /\ pc = "loop" =>
             /\ \/ cachedResponses' = cachedResponses
                \/ \E k \in DOMAIN cachedResponses' :
                      /\ k \notin DOMAIN cachedResponses
                      /\ DOMAIN cachedResponses' = DOMAIN cachedResponses \cup {k}
                      /\ \A j \in DOMAIN cachedResponses :
                            cachedResponses'[j] = cachedResponses[j]
                      /\ GeoSucceededFor(k)
             /\ Len(stderr') > Len(stderr) => cachedResponses' = cachedResponses
             /\ hist'[Len(hist')].via = "hit" => cachedResponses' = cachedResponses
             /\ \A k \in DOMAIN cachedResponses' : cachedResponses'[k].IP = k]_vars

\* C10 witness: a hit under a target name other than the one stored, after a
\* failed target, with the stored entry as it was.
C10_Witness ==
    \E m \in 1..Len(hist) :
        /\ hist[m].via = "hit"
        /\ hist[m].ip \in DOMAIN cachedResponses
        /\ cachedResponses[hist[m].ip].Target # hist[m].target
        /\ \E n \in 1..Len(hist) : Failed(hist[n])

==========================================================================
